---------------------------- MODULE Spec2Model ----------------------------
(***************************************************************************)
(* llm-prompt-tag: the prompt() tagged-template renderer (src/prompt.ts)   *)
(* and the makePrompt() formatter registry (src/makePrompt.ts).            *)
(*                                                                         *)
(* Text is a sequence of one-character strings.  A JavaScript value is a   *)
(* record tagged by its typeof/shape in field t.  A call that may throw    *)
(* yields a completion: Ok(text) or Throw(error).                          *)
(***************************************************************************)
EXTENDS Integers, Sequences, FiniteSets, TLC

VARIABLES
    pc,          \* "start" | "made" | "tagged" | "returned"
    registry,    \* the makePrompt closure: formatters, arrayFormatter, objectFormatter
    header,      \* the tag's header argument (undefined or a string)
    condition,   \* the tag's condition argument
    strings,     \* the literal fragments of the last invocation
    values,      \* the interpolated values of the last invocation
    transformed, \* makePrompt: the texts the values were transformed to
    result,      \* the text the last invocation returned
    raised,      \* the error the last invocation threw, or NoError
    embedded        \* the section whose returned text is interpolated, or NoEmbedded

vars == <<pc, registry, header, condition, strings, values, transformed, result, raised, embedded>>

(***************************************************************************)
(* Bounds of the model.                                                    *)
(***************************************************************************)
MaxLen == 6      \* longest single-fragment template of SpecText
MaxItems == 2    \* longest interpolated array

(***************************************************************************)
(* JavaScript values.                                                      *)
(***************************************************************************)
Undefined == [t |-> "undefined"]
Null == [t |-> "null"]
StrV(s) == [t |-> "string", s |-> s]
NumV(n) == [t |-> "number", n |-> n]
BoolV(b) == [t |-> "boolean", b |-> b]
ArrV(items) == [t |-> "array", items |-> items]
\* { title, content }: the Note of the tests
NoteV(title, content) == [t |-> "object", shape |-> "Note", title |-> title, content |-> content]
\* { name, completed }: the Task of the tests
TaskV(name, completed) == [t |-> "object", shape |-> "Task", name |-> name, completed |-> completed]
\* { toString() { return text } }
CustomV(text) == [t |-> "object", shape |-> "Custom", text |-> text]
\* {}: inherits Object.prototype.toString
PlainV == [t |-> "object", shape |-> "Plain"]
\* { toString() { throw ... } }
ThrowerV == [t |-> "object", shape |-> "Thrower"]

Ok(x) == [thrown |-> FALSE, val |-> x]
Throw(e) == [thrown |-> TRUE, err |-> e]
NoError == "none"

\* c, or what F makes of its value when c did not throw
Bind(c, F(_)) == IF c.thrown THEN c ELSE F(c.val)

\* a loop that returned nothing falls through to the code after it
Fallthrough == [thrown |-> FALSE, fell |-> TRUE]
OrElse(c, after) == IF c = Fallthrough THEN after ELSE c
NoRegistry == [made |-> FALSE]
NoEmbedded == [nested |-> FALSE]

(***************************************************************************)
(* Character classes of the regular expressions of prompt().               *)
(***************************************************************************)
\* \s (and the characters String.prototype.trim strips)
IsSpace(c) == c \in {" ", "\t", "\n", "\r", "\f"}
\* [ \t]
IsBlank(c) == c \in {" ", "\t"}

AllSpace(s, lo, hi) == \A k \in lo..hi : IsSpace(s[k])

(***************************************************************************)
(* .replace(/\n\s*\n\s*\n/g, '\n\n')                                       *)
(* BlankLinesMatchEnd(s, i) is the index of the last character of the      *)
(* match of /\n\s*\n\s*\n/ that starts at i, or 0 when there is none.  The *)
(* two \s* are greedy: the first takes the longest run that lets the rest  *)
(* match, then the second does.                                            *)
(***************************************************************************)
BlankLinesMatchEnd(s, i) ==
    LET room == Len(s) - i - 2
        Fits(a, b) == /\ a + b <= room
                      /\ AllSpace(s, i + 1, i + a)
                      /\ s[i + a + 1] = "\n"
                      /\ AllSpace(s, i + a + 2, i + a + 1 + b)
                      /\ s[i + a + b + 2] = "\n"
        As == {a \in 0..room : \E b \in 0..room : Fits(a, b)}
    IN  IF s[i] # "\n" \/ As = {} THEN 0
        ELSE LET a == CHOOSE x \in As : \A y \in As : y <= x
                 Bs == {b \in 0..room : Fits(a, b)}
                 b == CHOOSE x \in Bs : \A y \in Bs : y <= x
             IN  i + a + b + 2

\* the replacement from index i on: the text up to the leftmost match, the two
\* newlines that replace it, and the replacement of what follows the match
RECURSIVE CollapseBlankLinesFrom(_, _)
CollapseBlankLinesFrom(s, i) ==
    LET starts == {k \in i..Len(s) : s[k] = "\n" /\ BlankLinesMatchEnd(s, k) > 0}
    IN  IF starts = {} THEN SubSeq(s, i, Len(s))
        ELSE LET k == CHOOSE x \in starts : \A y \in starts : x <= y
             IN  SubSeq(s, i, k - 1) \o <<"\n", "\n">>
                     \o CollapseBlankLinesFrom(s, BlankLinesMatchEnd(s, k) + 1)

\* mutant: /\n\n\n/g, three adjacent newlines only
RECURSIVE CollapseBlankLines_Literal(_)
CollapseBlankLines_Literal(s) ==
    IF Len(s) >= 3 /\ s[1] = "\n" /\ s[2] = "\n" /\ s[3] = "\n"
    THEN <<"\n", "\n">> \o CollapseBlankLines_Literal(SubSeq(s, 4, Len(s)))
    ELSE IF s = <<>> THEN <<>>
    ELSE <<Head(s)>> \o CollapseBlankLines_Literal(Tail(s))

CollapseBlankLines(s) == CollapseBlankLinesFrom(s, 1)

(***************************************************************************)
(* .replace(/^\s+|\s+$/g, '') and .trim(): without the m flag ^ and $ are  *)
(* the ends of the whole string.                                           *)
(***************************************************************************)
StripLeft(s) ==
    LET kept == {k \in 1..Len(s) : ~IsSpace(s[k])}
    IN  IF kept = {} THEN <<>>
        ELSE SubSeq(s, CHOOSE x \in kept : \A y \in kept : x <= y, Len(s))

StripRight(s) ==
    LET kept == {k \in 1..Len(s) : ~IsSpace(s[k])}
    IN  IF kept = {} THEN <<>>
        ELSE SubSeq(s, 1, CHOOSE x \in kept : \A y \in kept : y <= x)

TrimEnds(s) == StripRight(StripLeft(s))

Trim(s) == StripRight(StripLeft(s))

(***************************************************************************)
(* .replace(/[ \t]+/g, ' '): a run of blanks is one match, so its first    *)
(* character becomes the space and the others go.  The text is rebuilt     *)
(* from its two halves.                                                    *)
(***************************************************************************)
RECURSIVE CollapseBlanksIn(_, _, _)
CollapseBlanksIn(s, lo, hi) ==
    IF lo > hi THEN <<>>
    ELSE IF lo = hi
         THEN IF ~IsBlank(s[lo]) THEN <<s[lo]>>
              ELSE IF lo > 1 /\ IsBlank(s[lo - 1]) THEN <<>>
              ELSE <<" ">>
    ELSE CollapseBlanksIn(s, lo, (lo + hi) \div 2)
             \o CollapseBlanksIn(s, (lo + hi) \div 2 + 1, hi)

\* mutant: / +/g, runs of spaces only, tabs stay
RECURSIVE CollapseBlanks_SpacesOnly(_)
CollapseBlanks_SpacesOnly(s) ==
    IF s = <<>> THEN <<>>
    ELSE IF Head(s) = " " /\ Len(s) >= 2 /\ s[2] = " " THEN CollapseBlanks_SpacesOnly(Tail(s))
    ELSE <<Head(s)>> \o CollapseBlanks_SpacesOnly(Tail(s))

CollapseBlanks(s) == CollapseBlanksIn(s, 1, Len(s))

(***************************************************************************)
(* .replace(/\n /g, '\n'): the space that follows a newline goes; matches  *)
(* cannot overlap, a space is not a newline.                               *)
(***************************************************************************)
RECURSIVE DropSpaceAfterNewlineIn(_, _, _)
DropSpaceAfterNewlineIn(s, lo, hi) ==
    IF lo > hi THEN <<>>
    ELSE IF lo = hi
         THEN IF s[lo] = " " /\ lo > 1 /\ s[lo - 1] = "\n" THEN <<>> ELSE <<s[lo]>>
    ELSE DropSpaceAfterNewlineIn(s, lo, (lo + hi) \div 2)
             \o DropSpaceAfterNewlineIn(s, (lo + hi) \div 2 + 1, hi)

\* mutant: step 4 left out, the space after a newline stays
DropSpaceAfterNewline_Kept(s) == s

DropSpaceAfterNewline(s) == DropSpaceAfterNewlineIn(s, 1, Len(s))

\* s without the spaces and tabs that directly precede a newline
StripBeforeNewline(s) ==
    LET kept == {k \in 1..Len(s) :
                    ~(/\ s[k] \in {" ", "\t"}
                      /\ \E q \in (k + 1)..Len(s) :
                             s[q] = "\n" /\ \A r \in k..(q - 1) : s[r] \in {" ", "\t"})}
    IN  [i \in 1..Cardinality(kept) |->
            s[CHOOSE k \in kept : Cardinality({r \in kept : r <= k}) = i]]

\* mutant: every line is trimmed at both ends, as if /[ \t]*\n[ \t]*/g became "\n"
Normalize_LinesTrimmed(s) ==
    Trim(DropSpaceAfterNewline(CollapseBlanks(StripBeforeNewline(
        TrimEnds(CollapseBlankLines(s))))))

\* mutant: the space after a newline is dropped before the blanks are collapsed
Normalize_DeindentFirst(s) ==
    Trim(CollapseBlanks(DropSpaceAfterNewline(TrimEnds(CollapseBlankLines(s)))))

\* the five-step cleanup of prompt(), in the order of the chain
Normalize(s) ==
    Trim(DropSpaceAfterNewline(CollapseBlanks(TrimEnds(CollapseBlankLines(s)))))

(***************************************************************************)
(* String(value) and Array.prototype.join, as JavaScript defines them.     *)
(***************************************************************************)
Digit(d) == <<"0", "1", "2", "3", "4", "5", "6", "7", "8", "9">>[d + 1]

RECURSIVE NaturalToString(_)
NaturalToString(n) ==
    IF n < 10 THEN <<Digit(n)>> ELSE NaturalToString(n \div 10) \o <<Digit(n % 10)>>

NumberToString(n) == IF n < 0 THEN <<"-">> \o NaturalToString(-n) ELSE NaturalToString(n)

TextUndefined == <<"u", "n", "d", "e", "f", "i", "n", "e", "d">>
TextNull == <<"n", "u", "l", "l">>
TextTrue == <<"t", "r", "u", "e">>
TextFalse == <<"f", "a", "l", "s", "e">>
TextObject == <<"[", "o", "b", "j", "e", "c", "t", " ", "O", "b", "j", "e", "c", "t", "]">>

\* texts[1] + sep + texts[2] + ... : join over elements that are already text
RECURSIVE JoinTexts(_, _)
JoinTexts(texts, sep) ==
    IF texts = <<>> THEN <<>>
    ELSE IF Len(texts) = 1 THEN texts[1]
    ELSE texts[1] \o sep \o JoinTexts(Tail(texts), sep)

\* obj.toString() of the object shapes of the model
ObjectToString(v) ==
    CASE v.shape = "Custom" -> Ok(v.text)
      [] v.shape = "Thrower" -> Throw("toString")
      [] OTHER -> Ok(TextObject)

RECURSIVE JsString(_)
RECURSIVE ItemTexts(_, _)

\* the element texts Array.prototype.join builds: undefined and null give '',
\* every other element its String(); the first throw ends the join
ItemTexts(items, i) ==
    IF i > Len(items) THEN Ok(<<>>)
    ELSE Bind(IF items[i].t \in {"undefined", "null"} THEN Ok(<<>>) ELSE JsString(items[i]),
              LAMBDA one : Bind(ItemTexts(items, i + 1),
                                LAMBDA rest : Ok(<<one>> \o rest)))

\* items.join(sep)
Join(items, sep) == Bind(ItemTexts(items, 1), LAMBDA texts : Ok(JoinTexts(texts, sep)))

\* String(v)
JsString(v) ==
    CASE v.t = "string" -> Ok(v.s)
      [] v.t = "number" -> Ok(NumberToString(v.n))
      [] v.t = "boolean" -> Ok(IF v.b THEN TextTrue ELSE TextFalse)
      [] v.t = "undefined" -> Ok(TextUndefined)
      [] v.t = "null" -> Ok(TextNull)
      [] v.t = "array" -> Join(v.items, <<",">>)
      [] v.t = "object" -> ObjectToString(v)

(***************************************************************************)
(* prompt(header, condition)(strings, ...values)                           *)
(***************************************************************************)
\* mutant: String(value) for every value, undefined and null included
StringValue_NoAbsentCheck(v) == JsString(v)

\* mutant: value ? String(value) : '', every falsy value contributes nothing
StringValue_FalsyDropped(v) ==
    IF \/ v.t \in {"undefined", "null"}
       \/ v = NumV(0) \/ v = BoolV(FALSE) \/ v = StrV(<<>>)
    THEN Ok(<<>>)
    ELSE JsString(v)

\* value !== undefined && value !== null ? String(value) : ''
StringValue(v) == IF v.t \notin {"undefined", "null"} THEN JsString(v) ELSE Ok(<<>>)

\* mutant: result + stringValue + str, each value before its fragment
RECURSIVE Concat_ValueFirst(_, _, _)
Concat_ValueFirst(strs, vals, i) ==
    IF i > Len(strs) THEN Ok(<<>>)
    ELSE Bind(StringValue(IF i <= Len(vals) THEN vals[i] ELSE Undefined),
              LAMBDA stringValue : Bind(Concat_ValueFirst(strs, vals, i + 1),
                                        LAMBDA rest : Ok(stringValue \o strs[i] \o rest)))

\* strings.reduce((result, str, i) => result + str + stringValue, ''), from
\* fragment i on: values[i] is undefined past the end of values
RECURSIVE Concat(_, _, _)
Concat(strs, vals, i) ==
    IF i > Len(strs) THEN Ok(<<>>)
    ELSE Bind(StringValue(IF i <= Len(vals) THEN vals[i] ELSE Undefined),
              LAMBDA stringValue : Bind(Concat(strs, vals, i + 1),
                                        LAMBDA rest : Ok(strs[i] \o stringValue \o rest)))

\* mutant: if (header), a whitespace-only header is shown
HeaderShown_NoTrim(h) == h.t = "string" /\ h.s # <<>>

\* header && header.trim()
HeaderShown(h) == h.t = "string" /\ h.s # <<>> /\ Trim(h.s) # <<>>

\* mutant: two spaces between the equals signs and the name
MarkerOpen_Wide == <<"=", "=", "=", "=", " ", " ">>
MarkerOpen == <<"=", "=", "=", "=", " ">>
MarkerClose == <<" ", "=", "=", "=", "=">>
MarkerEndOf == <<"=", "=", "=", "=", " ", "E", "n", "d", " ", "o", "f", " ">>

\* mutant: the closing line lacks "End of", it repeats the opening line
Wrap_ClosingAsOpening(name, content) ==
    <<"\n">> \o MarkerOpen \o name \o MarkerClose \o <<"\n">> \o content \o <<"\n">>
        \o MarkerOpen \o name \o MarkerClose \o <<"\n">>

\* mutant: the template literal starts and ends at the marker lines, without the
\* newline before the first and after the last
Wrap_NoPadding(name, content) ==
    MarkerOpen \o name \o MarkerClose \o <<"\n">> \o content \o <<"\n">>
        \o MarkerEndOf \o name \o MarkerClose

\* the template literal of the header branch
Wrap(name, content) ==
    <<"\n">> \o MarkerOpen \o name \o MarkerClose \o <<"\n">> \o content \o <<"\n">>
        \o MarkerEndOf \o name \o MarkerClose \o <<"\n">>

\* mutant: the check for empty content is missing
Section_NoEmptyCheck(h, content) == IF HeaderShown(h) THEN Wrap(h.s, content) ELSE content

\* if (!content) return ''; the header branch; return content
Section(h, content) ==
    IF content = <<>> THEN <<>>
    ELSE IF HeaderShown(h) THEN Wrap(h.s, content)
    ELSE content

\* mutant: the condition is consulted after the content is built
Prompt_ConditionLast(h, cond, strs, vals) ==
    Bind(Concat(strs, vals, 1),
         LAMBDA raw : IF ~cond THEN Ok(<<>>) ELSE Ok(Section(h, Normalize(raw))))

Prompt(h, cond, strs, vals) ==
    IF ~cond THEN Ok(<<>>)
    ELSE Bind(Concat(strs, vals, 1), LAMBDA raw : Ok(Section(h, Normalize(raw))))

(***************************************************************************)
(* The type guards and formatters a caller registers with makePrompt().    *)
(* They are the caller's code: the model draws them from those of the      *)
(* tests and the documentation.  A guard yields Ok(TRUE/FALSE) by the      *)
(* truthiness of what it returns.                                          *)
(***************************************************************************)
IsNote(v) == v.t = "object" /\ v.shape = "Note"
IsTask(v) == v.t = "object" /\ v.shape = "Task"

Guard(g, v) ==
    CASE g = "isNote" -> Ok(IsNote(v))
      [] g = "isTask" -> Ok(IsTask(v))
      [] g = "isItem" -> Ok(IsNote(v) \/ IsTask(v))
      [] g = "isArray" -> Ok(v.t = "array")
      \* (obj) => typeof obj.title === 'string': reading a property of undefined or
      \* null throws a TypeError
      [] g = "hasTitle" -> IF v.t \in {"undefined", "null"} THEN Throw("TypeError")
                           ELSE Ok(v.t = "object" /\ "title" \in DOMAIN v)

TextArrayWith == <<"A", "r", "r", "a", "y", " ", "w", "i", "t", "h", " ">>
TextItems == <<" ", "i", "t", "e", "m", "s", ":", " ">>

\* `${v.key}`: the text of a property, "undefined" when v has none
PropText(v, key) == IF key \in DOMAIN v THEN v[key] ELSE TextUndefined

\* noteFormatter:  (note) => `* ${note.title}\n${note.content}`  (the bullet is written *)
\* taskFormatter:  (task) => `[${task.completed ? 'x' : ' '}] ${task.name}`
\* itemFormatter:  (item) => `<${item.title ?? item.name}>`
\* countFormatter: (arr) => `Array with ${arr.length} items: ${arr.join(', ')}`
\* identity:       (item) => item, which the mixed-type branch hands to arrayFormatter
Format(f, v) ==
    CASE f = "noteFormatter" ->
            Ok(<<"*", " ">> \o PropText(v, "title") \o <<"\n">> \o PropText(v, "content"))
      [] f = "taskFormatter" ->
            Ok(<<"[", IF "completed" \in DOMAIN v /\ v.completed THEN "x" ELSE " ", "]", " ">>
                 \o PropText(v, "name"))
      [] f = "itemFormatter" ->
            Ok(<<"<">> \o (IF "title" \in DOMAIN v THEN v.title ELSE PropText(v, "name"))
                 \o <<">">>)
      [] f = "countFormatter" ->
            Bind(Join(v.items, <<",", " ">>),
                 LAMBDA joined :
                     Ok(TextArrayWith \o NumberToString(Len(v.items)) \o TextItems \o joined))
      [] f = "identity" -> Ok(v.s)
      \* (task) => { throw new Error('formatter') }
      [] f = "failing" -> Throw("formatter")

(***************************************************************************)
(* JSON.stringify(value, null, 2), the objectFormatter of the tests.       *)
(***************************************************************************)
Pad(k) == [i \in 1..k |-> " "]

EscapeChar(c) ==
    CASE c = "\n" -> <<"\\", "n">>
      [] c = "\t" -> <<"\\", "t">>
      [] c = "\r" -> <<"\\", "r">>
      [] c = "\f" -> <<"\\", "f">>
      [] c = "\"" -> <<"\\", "\"">>
      [] c = "\\" -> <<"\\", "\\">>
      [] OTHER -> <<c>>

RECURSIVE Escape(_)
Escape(s) == IF s = <<>> THEN <<>> ELSE EscapeChar(Head(s)) \o Escape(Tail(s))

Quote(s) == <<"\"">> \o Escape(s) \o <<"\"">>

\* the enumerable own properties of an object, in insertion order
Props(v) ==
    CASE v.shape = "Note" ->
            << <<(<<"t", "i", "t", "l", "e">>), StrV(v.title)>>,
               <<(<<"c", "o", "n", "t", "e", "n", "t">>), StrV(v.content)>> >>
      [] v.shape = "Task" ->
            << <<(<<"n", "a", "m", "e">>), StrV(v.name)>>,
               <<(<<"c", "o", "m", "p", "l", "e", "t", "e", "d">>), BoolV(v.completed)>> >>
      [] OTHER -> <<>>

RECURSIVE Json(_, _)
Json(v, ind) ==
    LET inner == Pad(ind + 2)
        sep == <<",", "\n">> \o inner
    IN  CASE v.t = "string" -> Quote(v.s)
          [] v.t = "number" -> NumberToString(v.n)
          [] v.t = "boolean" -> IF v.b THEN TextTrue ELSE TextFalse
          [] v.t \in {"null", "undefined"} -> TextNull
          [] v.t = "array" ->
                IF v.items = <<>> THEN <<"[", "]">>
                ELSE <<"[", "\n">> \o inner
                       \o JoinTexts([i \in 1..Len(v.items) |-> Json(v.items[i], ind + 2)], sep)
                       \o <<"\n">> \o Pad(ind) \o <<"]">>
          [] v.t = "object" ->
                LET ps == Props(v)
                IN  IF ps = <<>> THEN <<"{", "}">>
                    ELSE <<"{", "\n">> \o inner
                           \o JoinTexts([i \in 1..Len(ps) |->
                                  Quote(ps[i][1]) \o <<":", " ">> \o Json(ps[i][2], ind + 2)], sep)
                           \o <<"\n">> \o Pad(ind) \o <<"}">>

(***************************************************************************)
(* The arrayFormatter and objectFormatter options of makePrompt().         *)
(***************************************************************************)
\* items.map(f), ended by the first formatter that throws
RECURSIVE MapFormat(_, _, _)
MapFormat(f, items, i) ==
    IF i > Len(items) THEN Ok(<<>>)
    ELSE Bind(Format(f, items[i]),
              LAMBDA one : Bind(MapFormat(f, items, i + 1),
                                LAMBDA rest : Ok(<<one>> \o rest)))

\* "default": items.map(itemFormatter).join('\n\n')
\* "comma":   items.map(formatter).join(', ')
ArrayFormat(af, items, f) ==
    Bind(MapFormat(f, items, 1),
         LAMBDA texts :
             Ok(JoinTexts(texts, IF af = "default" THEN <<"\n", "\n">> ELSE <<",", " ">>)))

\* "default": typeof obj.toString === 'function' ? obj.toString() : String(obj)
\* "json":    JSON.stringify(obj, null, 2)
ObjectFormat(of, v) ==
    IF of = "default"
    THEN IF v.t = "array" THEN Join(v.items, <<",">>) ELSE ObjectToString(v)
    ELSE Ok(Json(v, 0))

(***************************************************************************)
(* makePrompt(formatters, options)(header, condition)(strings, ...values): *)
(* the transformation of one interpolated value.                           *)
(***************************************************************************)
\* mutant: a guard or formatter that throws is caught and counts as no match
RECURSIVE DirectMatch_Caught(_, _, _)
DirectMatch_Caught(fs, k, v) ==
    IF k > Len(fs) THEN Fallthrough
    ELSE IF Guard(fs[k].guard, v) = Ok(TRUE) /\ ~Format(fs[k].formatter, v).thrown
         THEN Format(fs[k].formatter, v)
    ELSE DirectMatch_Caught(fs, k + 1, v)

\* mutant: the last matching entry wins
RECURSIVE DirectMatch_LastWins(_, _, _)
DirectMatch_LastWins(fs, k, v) ==
    IF k > Len(fs) THEN Fallthrough
    ELSE OrElse(DirectMatch_LastWins(fs, k + 1, v),
                Bind(Guard(fs[k].guard, v),
                     LAMBDA matches : IF matches THEN Format(fs[k].formatter, v)
                                      ELSE Fallthrough))

\* for (const [typeGuard, formatter] of formatters) if (typeGuard(v)) return formatter(v)
\* from entry k on
RECURSIVE DirectMatch(_, _, _)
DirectMatch(fs, k, v) ==
    IF k > Len(fs) THEN Fallthrough
    ELSE Bind(Guard(fs[k].guard, v),
              LAMBDA matches : IF matches THEN Format(fs[k].formatter, v)
                               ELSE DirectMatch(fs, k + 1, v))

\* mutant: items.some(item => typeGuard(item))
RECURSIVE Every_Some(_, _, _)
Every_Some(g, items, i) ==
    IF i > Len(items) THEN Ok(FALSE)
    ELSE Bind(Guard(g, items[i]),
              LAMBDA matches : IF matches THEN Ok(TRUE) ELSE Every_Some(g, items, i + 1))

\* items.every(item => typeGuard(item)) from item i on: stops at the first false
RECURSIVE Every(_, _, _)
Every(g, items, i) ==
    IF i > Len(items) THEN Ok(TRUE)
    ELSE Bind(Guard(g, items[i]),
              LAMBDA matches : IF matches THEN Every(g, items, i + 1) ELSE Ok(FALSE))

\* mutant: no search for a common guard, every array is formatted item by item
Homogeneous_Skipped(reg, k, v) == Fallthrough

\* the loop that looks for one type guard all items match, from entry k on
RECURSIVE Homogeneous(_, _, _)
Homogeneous(reg, k, v) ==
    IF k > Len(reg.formatters) THEN Fallthrough
    ELSE Bind(Every(reg.formatters[k].guard, v.items, 1),
              LAMBDA all :
                  IF all THEN ArrayFormat(reg.arrayFormatter, v.items, reg.formatters[k].formatter)
                  ELSE Homogeneous(reg, k + 1, v))

\* item && typeof item === 'object'
IsObjectLike(v) == v.t \in {"object", "array"}

\* mutant: unmatched items are stringified, objects included
FormatItem_NoObjectFormatter(reg, item) ==
    OrElse(DirectMatch(reg.formatters, 1, item), JsString(item))

\* the callback of v.map in the mixed-type branch
FormatItem(reg, item) ==
    OrElse(DirectMatch(reg.formatters, 1, item),
           IF IsObjectLike(item) THEN ObjectFormat(reg.objectFormatter, item)
           ELSE JsString(item))

RECURSIVE FormatItems(_, _, _)
FormatItems(reg, items, i) ==
    IF i > Len(items) THEN Ok(<<>>)
    ELSE Bind(FormatItem(reg, items[i]),
              LAMBDA one : Bind(FormatItems(reg, items, i + 1),
                                LAMBDA rest : Ok(<<StrV(one)>> \o rest)))

\* the mixed-type branch
Mixed(reg, v) ==
    Bind(FormatItems(reg, v.items, 1),
         LAMBDA formattedItems : ArrayFormat(reg.arrayFormatter, formattedItems, "identity"))

\* if (Array.isArray(v)) { ... }
Aggregate(reg, v) ==
    IF v.items = <<>> THEN Ok(<<>>)
    ELSE OrElse(Homogeneous(reg, 1, v), Mixed(reg, v))

\* the arguments objectFormatter(...) receives while v is transformed and nothing
\* throws: the items of the mixed-type branch that are truthy objects, or v itself
ObjectFormatterArgs(reg, v) ==
    IF DirectMatch(reg.formatters, 1, v) # Fallthrough THEN {}
    ELSE IF v.t = "array"
         THEN IF v.items = <<>> \/ Homogeneous(reg, 1, v) # Fallthrough THEN {}
              ELSE {v.items[j] : j \in {k \in 1..Len(v.items) :
                        /\ DirectMatch(reg.formatters, 1, v.items[k]) = Fallthrough
                        /\ IsObjectLike(v.items[k])}}
    ELSE IF IsObjectLike(v) THEN {v}
    ELSE {}

\* mutant: the array branch is missing, an array is one more object
Transform_NoArrayBranch(reg, v) ==
    OrElse(DirectMatch(reg.formatters, 1, v),
           IF IsObjectLike(v) THEN ObjectFormat(reg.objectFormatter, v)
           ELSE JsString(v))

\* mutant: arrays are aggregated before the registered guards are tried
Transform_ArraysFirst(reg, v) ==
    IF v.t = "array" THEN Aggregate(reg, v)
    ELSE OrElse(DirectMatch(reg.formatters, 1, v),
                IF IsObjectLike(v) THEN ObjectFormat(reg.objectFormatter, v)
                ELSE JsString(v))

\* mutant: the object tier is missing, an unmatched object is stringified
Transform_NoObjectTier(reg, v) ==
    OrElse(DirectMatch(reg.formatters, 1, v),
           IF v.t = "array" THEN Aggregate(reg, v) ELSE JsString(v))

\* the callback of values.map
Transform(reg, v) ==
    OrElse(DirectMatch(reg.formatters, 1, v),
           IF v.t = "array" THEN Aggregate(reg, v)
           ELSE IF IsObjectLike(v) THEN ObjectFormat(reg.objectFormatter, v)
           ELSE JsString(v))

\* values.map(...) from value i on, ended by the first throw
RECURSIVE TransformAll(_, _, _)
TransformAll(reg, vals, i) ==
    IF i > Len(vals) THEN Ok(<<>>)
    ELSE Bind(Transform(reg, vals[i]),
              LAMBDA one : Bind(TransformAll(reg, vals, i + 1),
                                LAMBDA rest : Ok(<<one>> \o rest)))

\* the texts as the string values handed to base()
AsStrings(texts) == [i \in 1..Len(texts) |-> StrV(texts[i])]

\* mutant: base(strings, transformed), the texts are handed over as one array value
MakePromptCall_NoSpread(reg, h, cond, strs, vals) ==
    Bind(TransformAll(reg, vals, 1),
         LAMBDA texts : Prompt(h, cond, strs, <<ArrV(AsStrings(texts))>>))

\* mutant: base = prompt(header), the condition is not handed on
MakePromptCall_ConditionDropped(reg, h, cond, strs, vals) ==
    Bind(TransformAll(reg, vals, 1),
         LAMBDA texts : Prompt(h, TRUE, strs, AsStrings(texts)))

\* mutant: the condition is consulted first, the values are transformed only if it holds
MakePromptCall_ConditionFirst(reg, h, cond, strs, vals) ==
    IF ~cond THEN Ok(<<>>)
    ELSE Bind(TransformAll(reg, vals, 1),
              LAMBDA texts : Prompt(h, cond, strs, AsStrings(texts)))

\* the tag makePrompt returns: transform, then base(strings, ...transformed)
MakePromptCall(reg, h, cond, strs, vals) ==
    Bind(TransformAll(reg, vals, 1),
         LAMBDA texts : Prompt(h, cond, strs, AsStrings(texts)))

(***************************************************************************)
(* The inputs the model draws.                                             *)
(***************************************************************************)
Alphabet == {" ", "\t", "\n", "\r", "a"}

\* every text over Alphabet of at most n characters
Texts(n) == UNION {[1..k -> Alphabet] : k \in 0..n}

\* every sequence over S of at most n elements
SeqsUpTo(S, n) == UNION {[1..k -> S] : k \in 0..n}

Entry(g, f) == [guard |-> g, formatter |-> f]
NoteEntry == Entry("isNote", "noteFormatter")
TaskEntry == Entry("isTask", "taskFormatter")
ItemEntry == Entry("isItem", "itemFormatter")
ArrayEntry == Entry("isArray", "countFormatter")
\* a guard that throws on undefined and null, and a formatter that always throws
TitleEntry == Entry("hasTitle", "noteFormatter")
FailingEntry == Entry("isTask", "failing")

Registry(fs, af, of) ==
    [made |-> TRUE, formatters |-> fs, arrayFormatter |-> af, objectFormatter |-> of]

Registries ==
    { Registry(<<>>, "default", "default"),
      Registry(<<NoteEntry, TaskEntry>>, "default", "default"),
      Registry(<<NoteEntry>>, "comma", "default"),
      Registry(<<NoteEntry>>, "default", "json"),
      Registry(<<NoteEntry, ItemEntry>>, "default", "default"),
      Registry(<<ItemEntry, NoteEntry>>, "default", "default"),
      Registry(<<ArrayEntry>>, "default", "default"),
      Registry(<<NoteEntry, ArrayEntry>>, "comma", "json"),
      Registry(<<TitleEntry, FailingEntry>>, "default", "default") }

Headers == {Undefined, StrV(<<>>), StrV(<<" ">>), StrV(<<"H">>), StrV(<<" ", "H">>)}

NoteA == NoteV(<<"n">>, <<"c">>)
TaskK == TaskV(<<"k">>, TRUE)

Scalars ==
    { Undefined, Null, StrV(<<>>), StrV(<<"s">>), StrV(<<" ", "\n">>),
      NumV(0), NumV(42), BoolV(TRUE), BoolV(FALSE),
      NoteA, TaskK, CustomV(<<"o">>), PlainV, ThrowerV }

Items == {NoteA, TaskK, CustomV(<<"o">>), StrV(<<"s">>), ArrV(<<>>)}

Arrays == {ArrV(items) : items \in SeqsUpTo(Items, MaxItems)}

Template(strs, vals) == [strings |-> strs, values |-> vals]

Templates ==
    {Template(<<s>>, <<>>) : s \in Texts(2)}
    \cup {Template(f, <<v>>) :
            f \in {<< <<>>, <<>> >>, << <<" ">>, <<"\n">> >>, << <<"a", " ">>, <<"\n", "a">> >>},
            v \in Scalars}
    \cup {Template(<< <<" ">>, <<"\n">> >>, <<v>>) : v \in Arrays}
    \cup {Template(<< <<>>, <<" ">>, <<>> >>, <<v, w>>) :
            v \in {Undefined, StrV(<<"s">>), NumV(42), NoteA},
            w \in {Undefined, StrV(<<"s">>), NumV(42), NoteA}}
    \cup {Template(<< <<>>, <<"\n">>, <<>> >>, <<ArrV(<<TaskK, NoteA>>), NoteA>>)}

(***************************************************************************)
(* The state machine: a tag is built, invoked, and its result released.    *)
(***************************************************************************)
NoCall ==
    /\ strings = <<>>
    /\ values = <<>>
    /\ transformed = <<>>
    /\ result = <<>>
    /\ raised = NoError
    /\ embedded = NoEmbedded

Init ==
    /\ pc = "start"
    /\ registry = NoRegistry
    /\ header = Undefined
    /\ condition = TRUE
    /\ NoCall

\* const tag = prompt(h, c)
PromptTag(h, c) ==
    /\ pc = "start"
    /\ pc' = "tagged"
    /\ header' = h
    /\ condition' = c
    /\ UNCHANGED <<registry, strings, values, transformed, result, raised, embedded>>

\* const customPrompt = makePrompt(r.formatters, { arrayFormatter, objectFormatter })
MakePrompt(r) ==
    /\ pc = "start"
    /\ pc' = "made"
    /\ registry' = r
    /\ UNCHANGED <<header, condition, strings, values, transformed, result, raised, embedded>>

\* const tag = customPrompt(h, c)
MakeTag(h, c) ==
    /\ pc = "made"
    /\ pc' = "tagged"
    /\ header' = h
    /\ condition' = c
    /\ UNCHANGED <<registry, strings, values, transformed, result, raised, embedded>>

\* what the caller sees of a completion: the text returned or the error thrown
Returns(out) ==
    /\ result' = IF out.thrown THEN <<>> ELSE out.val
    /\ raised' = IF out.thrown THEN out.err ELSE NoError

\* the local const transformed of the tag, when values.map completed
Transforms(tr) == transformed' = IF tr.thrown THEN <<>> ELSE tr.val

\* tag(strs, ...vals) for a tag built by makePrompt()
MakePromptInvoke(strs, vals) ==
    /\ pc = "tagged"
    /\ registry.made
    /\ \E tr \in {TransformAll(registry, vals, 1)} : Transforms(tr)
    /\ \E out \in {MakePromptCall(registry, header, condition, strs, vals)} : Returns(out)
    /\ pc' = "returned"
    /\ strings' = strs
    /\ values' = vals
    /\ UNCHANGED <<registry, header, condition, embedded>>

\* tag(strs, ...vals) for a tag built by prompt()
PromptInvoke(strs, vals) ==
    /\ pc = "tagged"
    /\ ~registry.made
    /\ \E out \in {Prompt(header, condition, strs, vals)} : Returns(out)
    /\ pc' = "returned"
    /\ strings' = strs
    /\ values' = vals
    /\ UNCHANGED <<registry, header, condition, transformed, embedded>>

\* the caller drops the result; the tag can be invoked again
Release ==
    /\ pc = "returned"
    /\ pc' = "tagged"
    /\ strings' = <<>>
    /\ values' = <<>>
    /\ transformed' = <<>>
    /\ result' = <<>>
    /\ raised' = NoError
    /\ embedded' = NoEmbedded
    /\ UNCHANGED <<registry, header, condition>>

\* mutant: a tag that remembers it was called and returns '' from then on
Reinvoke_OneShot ==
    /\ pc = "returned"
    /\ result' = <<>>
    /\ UNCHANGED <<pc, registry, header, condition, strings, values, transformed,
                   raised, embedded>>

\* the same tag called again with the same fragments and values
Reinvoke ==
    /\ pc = "returned"
    /\ IF registry.made
       THEN /\ \E tr \in {TransformAll(registry, values, 1)} : Transforms(tr)
            /\ \E out \in {MakePromptCall(registry, header, condition, strings, values)} :
                   Returns(out)
       ELSE /\ \E out \in {Prompt(header, condition, strings, values)} : Returns(out)
            /\ UNCHANGED transformed
    /\ UNCHANGED <<pc, registry, header, condition, strings, values, embedded>>

InvokePrompt ==
    /\ pc = "tagged"
    /\ \E t \in Templates : PromptInvoke(t.strings, t.values)

InvokeMakePrompt ==
    /\ pc = "tagged"
    /\ \E t \in Templates : MakePromptInvoke(t.strings, t.values)

Next ==
    \/ \E h \in Headers, c \in BOOLEAN : PromptTag(h, c)
    \/ \E r \in Registries : MakePrompt(r)
    \/ \E h \in Headers, c \in BOOLEAN : MakeTag(h, c)
    \/ InvokePrompt
    \/ InvokeMakePrompt
    \/ Reinvoke
    \/ Release

Spec == Init /\ [][Next]_vars

(***************************************************************************)
(* SpecText: the tag prompt() applied to every one-fragment template of at *)
(* most MaxLen characters.                                                 *)
(***************************************************************************)
InitText ==
    /\ pc = "tagged"
    /\ registry = NoRegistry
    /\ header = Undefined
    /\ condition = TRUE
    /\ NoCall

TextInputs == Texts(MaxLen)

TextInvoke ==
    /\ pc = "tagged"
    /\ \E s \in TextInputs : PromptInvoke(<<s>>, <<>>)

NextText ==
    \/ TextInvoke
    \/ Reinvoke
    \/ Release

SpecText == InitText /\ [][NextText]_vars

(***************************************************************************)
(* SpecNest: the text one prompt() tag returned is interpolated into the   *)
(* template of another:  prompt(name2)`before ${prompt(name1)`...`} after` *)
(***************************************************************************)
MaxInner == 1    \* longest template of the inner section

InnerTexts ==
    Texts(MaxInner) \cup {<<"a", " ", "a">>, <<"a", "\n", "\n", "a">>, <<"a", " ", "\n", "a">>}

OuterHeaders == {Undefined, StrV(<<"G">>)}

\* the text before and the text after the interpolated section
OuterFragments ==
    {<<before, after>> :
        before \in {<<>>, <<"a">>, <<"a", " ">>, <<"a", "\n">>, <<"a", "\n", " ", "\n">>},
        after \in {<<>>, <<"b">>, <<" ", "b">>, <<"\n", "b">>, <<"\n", "\n", "\n", "b">>}}

InvokeInner ==
    /\ pc = "tagged"
    /\ \E s \in InnerTexts : PromptInvoke(<<s>>, <<>>)

\* prompt(h2)(strs, result) with result the text the inner tag just returned
Nest(h2, strs) ==
    /\ pc = "returned"
    /\ ~registry.made
    /\ raised = NoError
    /\ embedded = NoEmbedded
    /\ embedded' = [nested |-> TRUE, header |-> header, result |-> result]
    /\ header' = h2
    /\ condition' = TRUE
    /\ strings' = strs
    /\ values' = <<StrV(result)>>
    /\ \E out \in {Prompt(h2, TRUE, strs, <<StrV(result)>>)} : Returns(out)
    /\ UNCHANGED <<pc, registry, transformed>>

NextNest ==
    \/ \E h \in Headers, c \in BOOLEAN : PromptTag(h, c)
    \/ InvokeInner
    \/ \E h2 \in OuterHeaders, strs \in OuterFragments : Nest(h2, strs)
    \/ Reinvoke
    \/ Release

SpecNest == Init /\ [][NextNest]_vars

(***************************************************************************)
(* What the claims speak of.                                               *)
(***************************************************************************)
\* an invocation returned a text (it did not throw)
Returned == pc = "returned" /\ raised = NoError

\* the values prompt() itself received: makePrompt hands it the transformed texts
BaseValues == IF registry.made THEN AsStrings(transformed) ELSE values

\* F[0] + text(V[0]) + F[1] + ... of the returned invocation
RawContent == Concat(strings, BaseValues, 1).val

\* the normalized content C of the returned invocation
Content == Normalize(RawContent)

AllWhitespace(s) == \A k \in 1..Len(s) : s[k] \in {" ", "\t", "\n", "\r"}

\* the newlines of each whitespace run that lies between two non-whitespace
\* characters of s, in order; run counts the newlines of the run being read,
\* inside tells whether a non-whitespace character was read before it
RECURSIVE GapNewlines(_, _, _, _)
GapNewlines(s, i, run, inside) ==
    IF i > Len(s) THEN <<>>
    ELSE IF s[i] \in {" ", "\t", "\n", "\r"}
         THEN GapNewlines(s, i + 1, run + (IF s[i] = "\n" THEN 1 ELSE 0), inside)
    ELSE IF inside /\ i > 1 /\ s[i - 1] \in {" ", "\t", "\n", "\r"}
         THEN <<run>> \o GapNewlines(s, i + 1, 0, TRUE)
    ELSE GapNewlines(s, i + 1, 0, TRUE)

Min2(k) == IF k < 2 THEN k ELSE 2

HasTripleNewline(s) ==
    \E k \in 1..(Len(s) - 2) : s[k] = "\n" /\ s[k + 1] = "\n" /\ s[k + 2] = "\n"

C2_ConditionFalseEmpty ==
    (pc = "returned" /\ ~registry.made /\ ~condition) => (result = <<>> /\ raised = NoError)

C2_Witness ==
    /\ pc = "returned" /\ ~registry.made /\ ~condition
    /\ header = StrV(<<"H">>)
    /\ values = <<ThrowerV>>
    /\ strings = << <<"a", " ">>, <<"\n", "a">> >>

(***************************************************************************)
(* C3: for every name and condition=true, content that normalizes to the   *)
(* empty string (such as content of only spaces, tabs and newlines) gives  *)
(* exactly "", with neither marker.                                        *)
(***************************************************************************)
C3_EmptyContentSuppressed ==
    (Returned /\ condition /\ (Content = <<>> \/ AllWhitespace(RawContent))) => result = <<>>

C3_Witness ==
    /\ Returned /\ ~registry.made /\ condition
    /\ header = StrV(<<"H">>)
    /\ strings = << <<" ", "\n">> >>
    /\ result = <<>>

(***************************************************************************)
(* C4: two consecutive non-whitespace tokens separated in the input by a   *)
(* whitespace run with k newlines are separated in the normalized content  *)
(* by exactly min(k, 2) newlines, and the output never holds three         *)
(* consecutive newlines.                                                   *)
(***************************************************************************)
C4_NewlinesBetweenTokens ==
    Returned =>
        LET before == GapNewlines(RawContent, 1, 0, FALSE)
            after == GapNewlines(Content, 1, 0, FALSE)
        IN  /\ Len(after) = Len(before)
            /\ \A j \in 1..Len(before) : after[j] = Min2(before[j])
            /\ ~HasTripleNewline(Content)
            /\ result = Content

C4_Witness ==
    /\ Returned
    /\ strings = << <<"a", "\n", " ", "\n", "\n", "a">> >>
    /\ result = <<"a", "\n", "\n", "a">>

(***************************************************************************)
(* C5: whitespace normalization is idempotent: normalizing the normalized  *)
(* content changes nothing, and prompt() applied to the result of prompt() *)
(* returns it unchanged.                                                   *)
(***************************************************************************)
C5_NormalizeIdempotent ==
    Returned =>
        /\ result = Normalize(strings[1])
        /\ Normalize(result) = result
        /\ Prompt(Undefined, TRUE, <<result>>, <<>>) = Ok(result)

C5_Witness ==
    /\ Returned
    /\ strings = << <<" ", "a", "\n", "\t", " ", "a">> >>
    /\ result = <<"a", "\n", "a">>

\* the registered entries whose guard holds of v
Matching(v) ==
    {k \in 1..Len(registry.formatters) : Guard(registry.formatters[k].guard, v) = Ok(TRUE)}

\* the registered entries whose guard holds of every item
MatchingAll(items) ==
    {k \in 1..Len(registry.formatters) :
        \A j \in 1..Len(items) : Guard(registry.formatters[k].guard, items[j]) = Ok(TRUE)}

\* the formatter of the earliest of the entries ks
FirstFormatter(ks) == registry.formatters[CHOOSE k \in ks : \A j \in ks : k <= j].formatter

\* the separator of the arrayFormatter in use
Separator == IF registry.arrayFormatter = "default" THEN <<"\n", "\n">> ELSE <<",", " ">>

\* an interpolated array no registered guard matches as a whole
Unmatched(v) == v.t = "array" /\ Matching(v) = {}

(***************************************************************************)
(* C6: when several registered predicates hold of an interpolated value,   *)
(* it is rendered with the formatter of the earliest entry; no error is    *)
(* raised for the ambiguity; the same call repeated gives the same result. *)
(***************************************************************************)
C6_FirstRegisteredWins ==
    /\ [](pc = "returned" /\ registry.made =>
            \A i \in 1..Len(values) :
                Cardinality(Matching(values[i])) >= 2 =>
                    /\ Len(values) = 1 => raised = NoError
                    /\ raised = NoError =>
                          Ok(transformed[i])
                              = Format(FirstFormatter(Matching(values[i])), values[i]))
    /\ [][pc = "returned" /\ pc' = "returned" =>
            result' = result /\ raised' = raised /\ transformed' = transformed]_vars

C6_Witness ==
    /\ Returned
    /\ registry.made /\ registry.formatters = <<NoteEntry, ItemEntry>>
    /\ values = <<NoteA>>
    /\ transformed = <<(<<"*", " ", "n", "\n", "c">>)>>

(***************************************************************************)
(* C7: a non-empty array no predicate matches directly, all of whose       *)
(* elements satisfy some registered predicate, becomes                     *)
(* arrayFormatter(elements, f), f the formatter of the first such          *)
(* predicate; with the default arrayFormatter that is the formatted items  *)
(* joined by "\n\n", and a one-element array gives just f(element).        *)
(***************************************************************************)
C7_HomogeneousArray ==
    (Returned /\ registry.made) =>
        \A i \in 1..Len(values) :
            LET v == values[i] IN
            (Unmatched(v) /\ v.items # <<>> /\ MatchingAll(v.items) # {}) =>
                LET f == FirstFormatter(MatchingAll(v.items))
                    texts == [j \in 1..Len(v.items) |-> Format(f, v.items[j]).val]
                IN  /\ Ok(transformed[i]) = ArrayFormat(registry.arrayFormatter, v.items, f)
                    /\ transformed[i] = JoinTexts(texts, Separator)
                    /\ Len(v.items) = 1 => transformed[i] = texts[1]

C7_Witness ==
    /\ Returned
    /\ registry.made /\ registry.formatters = <<NoteEntry, ItemEntry>>
    /\ registry.arrayFormatter = "default"
    /\ values = <<ArrV(<<TaskK, NoteA>>)>>
    /\ transformed = <<(<<"<", "k", ">", "\n", "\n", "<", "n", ">">>)>>

(***************************************************************************)
(* C8: a non-empty array with no predicate matching the whole array and no *)
(* single predicate matching every element has each element converted on   *)
(* its own (formatter of the first matching predicate, else                *)
(* objectFormatter for non-null objects, else String(element)) and         *)
(* becomes arrayFormatter(convertedStrings, identity).                     *)
(***************************************************************************)
Converted(item) ==
    IF Matching(item) # {} THEN Format(FirstFormatter(Matching(item)), item).val
    ELSE IF item.t \in {"object", "array"} THEN ObjectFormat(registry.objectFormatter, item).val
    ELSE JsString(item).val

C8_MixedArray ==
    (Returned /\ registry.made) =>
        \A i \in 1..Len(values) :
            LET v == values[i] IN
            (Unmatched(v) /\ v.items # <<>> /\ MatchingAll(v.items) = {}) =>
                LET texts == [j \in 1..Len(v.items) |-> Converted(v.items[j])]
                IN  /\ transformed[i] = JoinTexts(texts, Separator)
                    /\ Ok(transformed[i])
                         = ArrayFormat(registry.arrayFormatter, AsStrings(texts), "identity")

C8_Witness ==
    /\ Returned
    /\ registry.made /\ registry.formatters = <<NoteEntry, TaskEntry>>
    /\ values = <<ArrV(<<TaskK, StrV(<<"s">>)>>)>>
    /\ transformed = <<(<<"[", "x", "]", " ", "k", "\n", "\n", "s">>)>>

(***************************************************************************)
(* C9: an empty array no registered predicate matches is transformed to    *)
(* the empty string, so a named section whose only content is that array   *)
(* returns exactly "".                                                     *)
(***************************************************************************)
C9_EmptyArray ==
    (Returned /\ registry.made) =>
        \A i \in 1..Len(values) :
            (Unmatched(values[i]) /\ values[i].items = <<>>) =>
                /\ transformed[i] = <<>>
                /\ (Len(values) = 1 /\ \A k \in 1..Len(strings) : AllWhitespace(strings[k]))
                      => result = <<>>

C9_Witness ==
    /\ Returned
    /\ registry.made /\ registry.formatters = <<NoteEntry, TaskEntry>>
    /\ header = StrV(<<"H">>) /\ condition
    /\ values = <<ArrV(<<>>)>>
    /\ result = <<>>

(***************************************************************************)
(* C10: if a registered predicate (such as isArray) holds of an array      *)
(* value, the value becomes that entry's formatter applied to the whole    *)
(* array; the aggregation path is not applied, the empty array included.   *)
(***************************************************************************)
C10_ArrayPredicateWins ==
    (Returned /\ registry.made) =>
        \A i \in 1..Len(values) :
            (values[i].t = "array" /\ Matching(values[i]) # {}) =>
                Ok(transformed[i]) = Format(FirstFormatter(Matching(values[i])), values[i])

C10_Witness ==
    /\ Returned
    /\ registry.made /\ registry.formatters = <<ArrayEntry>>
    /\ values = <<ArrV(<<>>)>>
    /\ transformed = <<TextArrayWith \o <<"0">> \o TextItems>>

(***************************************************************************)
(* C11: a non-null, non-array object no registered predicate matches is    *)
(* transformed to objectFormatter(value); the default objectFormatter      *)
(* gives the object's own toString(), and an objectFormatter of the config *)
(* replaces it.                                                            *)
(***************************************************************************)
C11_ObjectFallback ==
    (Returned /\ registry.made) =>
        \A i \in 1..Len(values) :
            LET v == values[i] IN
            (v.t = "object" /\ Matching(v) = {}) =>
                /\ Ok(transformed[i]) = ObjectFormat(registry.objectFormatter, v)
                /\ registry.objectFormatter = "default" =>
                       Ok(transformed[i]) = ObjectToString(v)
                /\ registry.objectFormatter = "json" => transformed[i] = Json(v, 0)

C11_Witness ==
    /\ Returned
    /\ registry.made /\ registry.objectFormatter = "json"
    /\ values = <<CustomV(<<"o">>)>>
    /\ transformed = <<(<<"{", "}">>)>>

(***************************************************************************)
(* C12: in makePrompt an interpolated undefined or null that matches no    *)
(* predicate contributes the empty string, exactly as it does in prompt.   *)
(***************************************************************************)
C12_AbsentValueEmpty ==
    (Returned /\ registry.made) =>
        \A i \in 1..Len(values) :
            (values[i].t \in {"undefined", "null"} /\ Matching(values[i]) = {}) =>
                /\ transformed[i] = <<>>
                /\ Len(values) = 1 => Ok(result) = Prompt(header, condition, strings, values)

(***************************************************************************)
(* C13: objectFormatter is applied only to non-array composite objects:    *)
(* never to an array, string, number, boolean, null or undefined, whether  *)
(* the value was interpolated directly or is an element of an interpolated *)
(* array.                                                                  *)
(***************************************************************************)
C13_ObjectFormatterOnObjectsOnly ==
    (Returned /\ registry.made) =>
        \A i \in 1..Len(values) :
            \A x \in ObjectFormatterArgs(registry, values[i]) : x.t = "object"

(***************************************************************************)
(* C14: a makePrompt tag returns what prompt(name, condition) returns for  *)
(* the same fragments and the values transformed one by one, each at its   *)
(* own position; with an empty registry and string, number or boolean      *)
(* values that is what prompt returns for the values themselves.           *)
(***************************************************************************)
C14_DelegatesToPrompt ==
    (pc = "returned" /\ registry.made) =>
        LET T == [i \in 1..Len(values) |-> Transform(registry, values[i])]
            failed == {i \in 1..Len(values) : T[i].thrown}
        IN  IF failed # {}
            THEN raised = T[CHOOSE i \in failed : \A j \in failed : i <= j].err
            ELSE /\ raised = NoError
                 /\ transformed = [i \in 1..Len(values) |-> T[i].val]
                 /\ Ok(result) = Prompt(header, condition, strings,
                                        [i \in 1..Len(values) |-> StrV(T[i].val)])
                 /\ (/\ registry.formatters = <<>>
                     /\ \A i \in 1..Len(values) :
                            values[i].t \in {"string", "number", "boolean"})
                        => Ok(result) = Prompt(header, condition, strings, values)

C14_Witness ==
    /\ Returned
    /\ registry.made /\ registry.formatters = <<NoteEntry, TaskEntry>>
    /\ header = StrV(<<"H">>) /\ condition
    /\ strings = << <<>>, <<" ">>, <<>> >>
    /\ values = <<NoteA, NumV(42)>>
    /\ result = Wrap(<<"H">>, <<"*", " ", "n", "\n", "c", " ", "4", "2">>)

(***************************************************************************)
(* C15 as stated: a makePrompt tag built with condition false returns      *)
(* exactly "" for every registry, name, fragment list and value list.      *)
(***************************************************************************)
C15_ConditionFalseAlwaysEmpty ==
    (pc = "returned" /\ registry.made /\ ~condition) =>
        (result = <<>> /\ raised = NoError)

(***************************************************************************)
(* C15 amended: a makePrompt tag built with condition false returns        *)
(* exactly "" whenever the transformation of its values completes; the     *)
(* values are transformed before the condition is consulted, so an error   *)
(* raised while a value is transformed is raised by the call.              *)
(***************************************************************************)
C15_ConditionFalseEmptyUnlessRaised ==
    (pc = "returned" /\ registry.made /\ ~condition) =>
        IF \E i \in 1..Len(values) : Transform(registry, values[i]).thrown
        THEN raised # NoError
        ELSE raised = NoError /\ result = <<>>

C15_Witness ==
    /\ Returned
    /\ registry.made /\ registry.formatters = <<NoteEntry, TaskEntry>>
    /\ header = StrV(<<"H">>) /\ ~condition
    /\ values = <<NoteA>>
    /\ transformed = <<(<<"*", " ", "n", "\n", "c">>)>>
    /\ result = <<>>

(***************************************************************************)
(* C16: if a registered formatter or predicate raises while a value is     *)
(* being transformed, the call of the makePrompt tag raises that same      *)
(* error: it is not caught, not replaced by a fallback tier and not turned *)
(* into text, and no string is returned.                                   *)
(***************************************************************************)
\* the entries whose guard does not simply return false for v
Deciding(v) ==
    {k \in 1..Len(registry.formatters) : Guard(registry.formatters[k].guard, v) # Ok(FALSE)}

\* the error the first loop raises for v, NoError when it raises none
DirectError(v) ==
    IF Deciding(v) = {} THEN NoError
    ELSE LET e == registry.formatters[CHOOSE k \in Deciding(v) : \A j \in Deciding(v) : k <= j]
             g == Guard(e.guard, v)
             f == Format(e.formatter, v)
         IN  IF g.thrown THEN g.err ELSE IF f.thrown THEN f.err ELSE NoError

\* the error a formatter raises for an item of the unmatched array v
ItemError(v, j) ==
    IF MatchingAll(v.items) # {}
    THEN LET f == Format(FirstFormatter(MatchingAll(v.items)), v.items[j])
         IN  IF f.thrown THEN f.err ELSE NoError
    ELSE DirectError(v.items[j])

C16_ErrorsPropagate ==
    (pc = "returned" /\ registry.made) =>
        \A i \in 1..Len(values) :
            LET v == values[i] IN
            (\A h \in 1..(i - 1) : ~Transform(registry, values[h]).thrown) =>
                /\ DirectError(v) # NoError => raised = DirectError(v) /\ result = <<>>
                /\ (Unmatched(v) /\ DirectError(v) = NoError) =>
                       \A j \in 1..Len(v.items) :
                           (/\ ItemError(v, j) # NoError
                            /\ \A h \in 1..(j - 1) : ItemError(v, h) = NoError)
                               => raised = ItemError(v, j) /\ result = <<>>

C16_Witness ==
    /\ pc = "returned"
    /\ registry.made /\ registry.formatters = <<TitleEntry, FailingEntry>>
    /\ values = <<ArrV(<<NoteA, TaskK>>)>>
    /\ raised = "formatter"

(***************************************************************************)
(* Nested sections: what C17 and C18 speak of.                             *)
(***************************************************************************)
\* the outer tag returned, and what it interpolated is a named section with content
NestedSection ==
    /\ Returned
    /\ embedded.nested
    /\ embedded.result # <<>>
    /\ HeaderShown(embedded.header)

OpeningLine(name) == MarkerOpen \o name \o MarkerClose
ClosingLine(name) == MarkerEndOf \o name \o MarkerClose

\* the text t occurs in s at position p
Occurs(t, s, p) == p >= 1 /\ p + Len(t) - 1 <= Len(s) /\ SubSeq(s, p, p + Len(t) - 1) = t

\* t occurs in s at or after position p
OccursFrom(t, s, p) == \E q \in p..Len(s) : Occurs(t, s, q)

\* the four marker lines occur in s one after the other: outer opening, inner
\* opening, inner closing, outer closing
MarkersInOrder(s, outer, inr) ==
    \E p1 \in 1..Len(s) :
        /\ Occurs(OpeningLine(outer), s, p1)
        /\ \E p2 \in (p1 + Len(OpeningLine(outer)))..Len(s) :
              /\ Occurs(OpeningLine(inr), s, p2)
              /\ \E p3 \in (p2 + Len(OpeningLine(inr)))..Len(s) :
                    /\ Occurs(ClosingLine(inr), s, p3)
                    /\ OccursFrom(ClosingLine(outer), s, p3 + Len(ClosingLine(inr)))

\* the whitespace cleanup leaves the name as it is
CleanName(name) == Normalize(name) = name

(***************************************************************************)
(* C17 as stated: when the text prompt(name1)(...) returned for non-empty  *)
(* content is interpolated into prompt(name2)(...), the outer result holds *)
(* the markers of both sections in the order name2 opening, name1 opening, *)
(* name1 closing, name2 closing, and never more than one blank line around *)
(* the inner block.                                                        *)
(***************************************************************************)
C17_NestedMarkersInOrder ==
    (NestedSection /\ HeaderShown(header)) =>
        /\ MarkersInOrder(result, header.s, embedded.header.s)
        /\ ~HasTripleNewline(Content)

(***************************************************************************)
(* C17 amended: the same, for a name1 the whitespace cleanup leaves        *)
(* unchanged (no leading or trailing whitespace, no tab, no two adjacent   *)
(* blanks, ...): the outer cleanup runs over the inner marker lines too.   *)
(***************************************************************************)
C17_NestedCleanMarkersInOrder ==
    (NestedSection /\ HeaderShown(header)) =>
        /\ CleanName(embedded.header.s) =>
               MarkersInOrder(result, header.s, embedded.header.s)
        /\ ~HasTripleNewline(Content)

C17_Witness ==
    /\ NestedSection
    /\ header = StrV(<<"G">>) /\ embedded.header = StrV(<<"H">>)
    /\ strings = << <<"a", "\n">>, <<"\n", "\n", "\n", "b">> >>
    /\ result = Wrap(<<"G">>, <<"a", "\n", "\n">> \o OpeningLine(<<"H">>) \o <<"\n", "a", "\n">>
                                 \o ClosingLine(<<"H">>) \o <<"\n", "\n", "b">>)

\* the fragment holds text, not only whitespace
HasText(f) == \E k \in 1..Len(f) : ~IsSpace(f[k])

\* a newline stands in the whitespace that ends the fragment
NewlineAtEnd(f) == \E k \in 1..Len(f) : f[k] = "\n" /\ \A j \in k..Len(f) : IsSpace(f[j])

\* a newline stands in the whitespace that starts the fragment
NewlineAtStart(f) == \E k \in 1..Len(f) : f[k] = "\n" /\ \A j \in 1..k : IsSpace(f[j])

BlankLineBefore(line, s) == OccursFrom(<<"\n", "\n">> \o line \o <<"\n">>, s, 1)
BlankLineAfter(line, s) == OccursFrom(<<"\n">> \o line \o <<"\n", "\n">>, s, 1)

(***************************************************************************)
(* C18 as stated: a header-wrapped section interpolated into an outer      *)
(* template with text before and after it appears in the outer result with *)
(* a blank line directly before its opening marker line and a blank line   *)
(* directly after its closing marker line.                                 *)
(***************************************************************************)
C18_BlankLinesAroundSection ==
    (NestedSection /\ HasText(strings[1]) /\ HasText(strings[2])) =>
        /\ BlankLineBefore(OpeningLine(embedded.header.s), result)
        /\ BlankLineAfter(ClosingLine(embedded.header.s), result)

(***************************************************************************)
(* C18 amended: for a section name the cleanup leaves unchanged, the blank *)
(* line before the opening marker line is there exactly when the template  *)
(* has a newline between the text before and the interpolation, and the    *)
(* blank line after the closing marker line exactly when it has a newline  *)
(* between the interpolation and the text after; text on the same line as  *)
(* the interpolation is separated from the marker line by one newline.     *)
(***************************************************************************)
C18_BlankLinesWhenOnOwnLine ==
    (/\ NestedSection /\ CleanName(embedded.header.s)
     /\ HasText(strings[1]) /\ HasText(strings[2])) =>
        /\ BlankLineBefore(OpeningLine(embedded.header.s), result)
               <=> NewlineAtEnd(strings[1])
        /\ BlankLineAfter(ClosingLine(embedded.header.s), result)
               <=> NewlineAtStart(strings[2])
        /\ OccursFrom(<<"\n">> \o OpeningLine(embedded.header.s) \o <<"\n">>, result, 1)
        /\ OccursFrom(<<"\n">> \o ClosingLine(embedded.header.s) \o <<"\n">>, result, 1)

C18_Witness ==
    /\ NestedSection
    /\ header = Undefined /\ embedded.header = StrV(<<"H">>)
    /\ strings = << <<"a", "\n">>, <<"\n", "b">> >>
    /\ result = <<"a", "\n", "\n">> \o OpeningLine(<<"H">>) \o <<"\n", "a", "\n">>
                    \o ClosingLine(<<"H">>) \o <<"\n", "\n", "b">>

(***************************************************************************)
(* C19: in prompt an interpolated undefined or null contributes the empty  *)
(* string and the call does not raise; the text around it is rendered as   *)
(* if the interpolation were empty.                                        *)
(***************************************************************************)
Absent(v) == v.t \in {"undefined", "null"}

\* the values with the empty string in the place of undefined and null
AbsentAsEmpty == [i \in 1..Len(values) |-> IF Absent(values[i]) THEN StrV(<<>>) ELSE values[i]]

C19_AbsentValuesEmpty ==
    (pc = "returned" /\ ~registry.made /\ ~embedded.nested /\ condition
        /\ \E i \in 1..Len(values) : Absent(values[i])) =>
        /\ (\A i \in 1..Len(values) : Absent(values[i])) =>
               /\ raised = NoError
               /\ result = Section(header, Normalize(JoinTexts(strings, <<>>)))
        /\ raised = NoError => Ok(result) = Prompt(header, condition, strings, AbsentAsEmpty)

C19_Witness ==
    /\ Returned /\ ~registry.made /\ condition
    /\ header = Undefined
    /\ strings = << <<"a", " ">>, <<"\n", "a">> >>
    /\ values = <<Null>>
    /\ result = <<"a", " ", "\n", "a">>

(***************************************************************************)
(* C20: in prompt with condition=true the content before normalization is  *)
(* F[0] + text(V[0]) + F[1] + text(V[1]) + ... + F[N] in positional order, *)
(* and normalization changes only whitespace: without their whitespace the *)
(* normalized content and that concatenation are the same characters in    *)
(* the same order.                                                         *)
(***************************************************************************)
\* the text of the value after fragment i, '' past the end of the values
TextOfValue(i) ==
    IF i <= Len(values) /\ ~Absent(values[i]) THEN JsString(values[i]).val ELSE <<>>

Interleaved == JoinTexts([i \in 1..Len(strings) |-> strings[i] \o TextOfValue(i)], <<>>)

\* s without its whitespace
Squeeze(s) == SelectSeq(s, LAMBDA c : ~IsSpace(c))

C20_OnlyWhitespaceChanges ==
    (Returned /\ ~registry.made /\ condition) =>
        /\ result = Section(header, Normalize(Interleaved))
        /\ Squeeze(Content) = Squeeze(Interleaved)
        /\ result # <<>> =>
               \E p \in 1..Len(result) : Occurs(Content, result, p)

C20_Witness ==
    /\ Returned /\ ~registry.made /\ condition
    /\ header = Undefined
    /\ strings = << <<"a", " ">>, <<"\n", "a">> >>
    /\ values = <<NumV(42)>>
    /\ result = <<"a", " ", "4", "2", "\n", "a">>

(***************************************************************************)
(* C21: the normalized content prompt returns without a name holds no tab, *)
(* no two consecutive spaces, no space or tab directly after a newline and *)
(* no leading or trailing whitespace; tokens separated on one line by a    *)
(* run of spaces and tabs end up separated by exactly one space.           *)
(***************************************************************************)
\* the positions of s after which a whitespace run leads to further text
GapStarts(s) ==
    {p \in 1..Len(s) : /\ ~IsSpace(s[p])
                       /\ p < Len(s) /\ IsSpace(s[p + 1])
                       /\ \E q \in (p + 2)..Len(s) : ~IsSpace(s[q])}

\* the whitespace run that follows position p of s
RunAfter(s, p) ==
    SubSeq(s, p + 1, (CHOOSE q \in (p + 2)..Len(s) :
                         ~IsSpace(s[q]) /\ \A r \in (p + 1)..(q - 1) : IsSpace(s[r])) - 1)

\* the whitespace runs between the tokens of s, in order
GapRuns(s) ==
    LET starts == GapStarts(s)
    IN  [j \in 1..Cardinality(starts) |->
            RunAfter(s, CHOOSE p \in starts : Cardinality({r \in starts : r <= p}) = j)]

AllBlank(s) == \A k \in 1..Len(s) : IsBlank(s[k])

C21_NormalizedShape ==
    (Returned /\ header = Undefined) =>
        /\ \A k \in 1..Len(result) : result[k] # "\t"
        /\ \A k \in 1..(Len(result) - 1) :
              /\ ~(result[k] = " " /\ result[k + 1] = " ")
              /\ result[k] = "\n" => ~IsBlank(result[k + 1])
        /\ result # <<>> => (~IsSpace(result[1]) /\ ~IsSpace(result[Len(result)]))
        /\ Len(GapRuns(result)) = Len(GapRuns(RawContent))
        /\ \A j \in 1..Len(GapRuns(RawContent)) :
              AllBlank(GapRuns(RawContent)[j]) => GapRuns(result)[j] = <<" ">>

C21_Witness ==
    /\ Returned /\ header = Undefined
    /\ strings = << <<"\t", "a", " ", "\t", " ", "a">> >>
    /\ result = <<"a", " ", "a">>

(***************************************************************************)
(* C22: indentation independence.  Two templates that differ only in the   *)
(* number of spaces and tabs at the start of their lines produce the same  *)
(* output.  Two such templates have the same text once the spaces and tabs *)
(* at the start of every line are removed, so the claim holds exactly when *)
(* every template produces the output of its fully unindented form.        *)
(***************************************************************************)
\* position k of s is a space or tab of the indentation of its line
Indentation(s, k) ==
    \E j \in 1..k : /\ j = 1 \/ s[j - 1] = "\n"
                    /\ \A r \in j..k : IsBlank(s[r])

\* s without the spaces and tabs at the start of its lines
Deindent(s) ==
    LET kept == {k \in 1..Len(s) : ~Indentation(s, k)}
    IN  [i \in 1..Cardinality(kept) |->
            s[CHOOSE k \in kept : Cardinality({r \in kept : r <= k}) = i]]

C22_IndentationIndependent ==
    (Returned /\ Len(strings) = 1) =>
        Prompt(header, condition, <<Deindent(strings[1])>>, values) = Ok(result)

C22_Witness ==
    /\ Returned
    /\ strings = << <<" ", "a", "\n", " ", "\t", "a">> >>
    /\ Deindent(strings[1]) = <<"a", "\n", "a">>
    /\ result = <<"a", "\n", "a">>

(***************************************************************************)
(* C23: invoking a tag changes neither the registry entries and config it  *)
(* was built from nor its name and condition, and what an invocation       *)
(* returns or raises is a function of its own fragments and values: after  *)
(* any step that leaves a call returned (the first call, a call after      *)
(* others were released, the same call made again) the outcome is the one  *)
(* the tag computes from the inputs of that call alone.                    *)
(***************************************************************************)
\* the completion of the tag of this state applied to strs and vals
TagCall(strs, vals) ==
    IF registry.made THEN MakePromptCall(registry, header, condition, strs, vals)
    ELSE Prompt(header, condition, strs, vals)

OwnOutcome ==
    \E out \in {TagCall(strings, values)} :
        IF out.thrown THEN raised = out.err ELSE raised = NoError /\ result = out.val

C24_FormatterIndentationKept ==
    (Returned /\ registry.made /\ condition) =>
        \A i \in 1..Len(values) :
            values[i].t = "object" => OccursFrom(transformed[i], result, 1)

(***************************************************************************)
(* C25: the plain prompt tag given an array of strings as an interpolated  *)
(* value renders its elements separated from each other by a blank line,   *)
(* not as one comma-joined line.                                           *)
(***************************************************************************)
StringArray(v) ==
    v.t = "array" /\ Len(v.items) >= 2 /\ \A j \in 1..Len(v.items) : v.items[j].t = "string"

C25_PromptArrayBlankLines ==
    (Returned /\ ~registry.made /\ condition) =>
        \A i \in 1..Len(values) :
            StringArray(values[i]) =>
                OccursFrom(JoinTexts([j \in 1..Len(values[i].items) |-> values[i].items[j].s],
                                     <<"\n", "\n">>),
                           result, 1)

(***************************************************************************)
(* C26: makePrompt transforms all interpolated values before the condition *)
(* is consulted.  With condition false the values are still transformed in *)
(* order, each by the predicates and formatter that apply to it: the first *)
(* error a predicate or formatter raises is raised by the call, which then *)
(* does not return "", and without an error every value was transformed.   *)
(***************************************************************************)
C26_TransformBeforeCondition ==
    (pc = "returned" /\ registry.made /\ ~condition) =>
        /\ \A i \in 1..Len(values) :
              (/\ Transform(registry, values[i]).thrown
               /\ \A h \in 1..(i - 1) : ~Transform(registry, values[h]).thrown)
                  => raised = Transform(registry, values[i]).err
        /\ raised = NoError =>
              /\ Len(transformed) = Len(values)
              /\ \A i \in 1..Len(values) : Ok(transformed[i]) = Transform(registry, values[i])

C26_Witness ==
    /\ pc = "returned"
    /\ registry.made /\ registry.formatters = <<TitleEntry, FailingEntry>>
    /\ ~condition
    /\ values = <<TaskK>>
    /\ raised = "formatter"

(***************************************************************************)
(* C27: homogeneous detection overrides the first match of each element.   *)
(* For an array no predicate matches as a whole, whose elements all        *)
(* satisfy predicate Pj while an earlier-registered predicate Pi satisfies *)
(* only some of them, every element, those Pi matches included, is         *)
(* formatted with the formatter of Pj; the same element interpolated on    *)
(* its own is formatted with the formatter of Pi.                          *)
(***************************************************************************)
\* the earliest of the entries ks
First(ks) == CHOOSE k \in ks : \A j \in ks : k <= j

\* the items of the array v that an entry registered before the common one matches
EarlierMatched(v) ==
    {j \in 1..Len(v.items) :
        Matching(v.items[j]) # {} /\ First(Matching(v.items[j])) < First(MatchingAll(v.items))}

C27_HomogeneousOverridesFirstMatch ==
    (Returned /\ registry.made) =>
        \A i \in 1..Len(values) :
            LET v == values[i] IN
            (/\ Unmatched(v) /\ v.items # <<>> /\ MatchingAll(v.items) # {}
             /\ EarlierMatched(v) # {}) =>
                LET fj == FirstFormatter(MatchingAll(v.items))
                IN  /\ transformed[i] =
                           JoinTexts([j \in 1..Len(v.items) |-> Format(fj, v.items[j]).val],
                                     Separator)
                    /\ \A j \in EarlierMatched(v), k \in 1..Len(values) :
                           values[k] = v.items[j] =>
                               Ok(transformed[k]) =
                                   Format(FirstFormatter(Matching(v.items[j])), v.items[j])

C27_Witness ==
    /\ Returned
    /\ registry.made /\ registry.formatters = <<NoteEntry, ItemEntry>>
    /\ registry.arrayFormatter = "default"
    /\ values = <<ArrV(<<TaskK, NoteA>>), NoteA>>
    /\ EarlierMatched(values[1]) = {2}
    /\ transformed = << <<"<", "k", ">", "\n", "\n", "<", "n", ">">>,
                        <<"*", " ", "n", "\n", "c">> >>

(***************************************************************************)
(* C28: normalization removes the indentation of lines but not the         *)
(* trailing whitespace of interior lines: spaces and tabs that directly    *)
(* precede a newline after non-whitespace text are collapsed to a single   *)
(* space that stays in the output, so the template "a  \na" gives "a \na"  *)
(* and not "a\na".                                                         *)
(***************************************************************************)
\* the whitespace run s starts with spaces or tabs that lead to a newline
BlanksThenNewline(s) ==
    \E q \in 2..Len(s) : s[q] = "\n" /\ \A r \in 1..(q - 1) : IsBlank(s[r])

C28_TrailingBlanksKeptAsOneSpace ==
    (Returned /\ header = Undefined) =>
        /\ Len(GapRuns(result)) = Len(GapRuns(RawContent))
        /\ \A j \in 1..Len(GapRuns(RawContent)) :
              IF BlanksThenNewline(GapRuns(RawContent)[j])
              THEN /\ Len(GapRuns(result)[j]) >= 2
                   /\ GapRuns(result)[j][1] = " " /\ GapRuns(result)[j][2] = "\n"
              ELSE IsBlank(GapRuns(RawContent)[j][1]) \/ GapRuns(result)[j][1] # " "
        /\ strings = << <<"a", " ", " ", "\n", "a">> >> => result = <<"a", " ", "\n", "a">>

C28_Witness ==
    /\ Returned /\ header = Undefined
    /\ strings = << <<"a", " ", "\t", "\n", " ", "a">> >>
    /\ result = <<"a", " ", "\n", "a">>

(***************************************************************************)
(* C29: outer normalization leaves an embedded section intact.  If name    *)
(* holds no tab, no newline, no leading or trailing space and no two       *)
(* consecutive spaces, the text from the opening marker line through the   *)
(* closing marker line of a prompt(name)(...) result stands character for  *)
(* character, as one contiguous piece, in the result of an outer prompt    *)
(* call with condition true into which it is interpolated.                 *)
(***************************************************************************)
NameIsClean(name) ==
    /\ \A k \in 1..Len(name) : name[k] \notin {"\t", "\n"}
    /\ name # <<>> => (name[1] # " " /\ name[Len(name)] # " ")
    /\ \A k \in 1..(Len(name) - 1) : ~(name[k] = " " /\ name[k + 1] = " ")

\* the section r without the newline before its opening line and after its closing line
MarkerBlock(r) == SubSeq(r, 2, Len(r) - 1)

C29_EmbeddedSectionIntact ==
    (NestedSection /\ condition /\ NameIsClean(embedded.header.s)) =>
        /\ Occurs(OpeningLine(embedded.header.s), MarkerBlock(embedded.result), 1)
        /\ OccursFrom(MarkerBlock(embedded.result), result, 1)

C29_Witness ==
    /\ NestedSection /\ condition
    /\ header = StrV(<<"G">>) /\ embedded.header = StrV(<<"H">>)
    /\ embedded.result = Wrap(<<"H">>, <<"a", " ", "\n", "a">>)
    /\ strings = << <<"a", "\n", " ", "\n">>, <<"\n", "\n", "\n", "b">> >>
    /\ OccursFrom(MarkerBlock(embedded.result), result, 1)

(***************************************************************************)
(* C30: falsy values that are not absent are not dropped.  In prompt and   *)
(* in makePrompt an interpolated 0 contributes the text "0" and an         *)
(* interpolated false the text "false"; content that is only "0" is not    *)
(* treated as empty, so a named section around it is emitted with its      *)
(* markers.                                                                *)
(***************************************************************************)
Falsy(v) == v = NumV(0) \/ v = BoolV(FALSE)

FalsyText(v) == IF v = NumV(0) THEN <<"0">> ELSE <<"f", "a", "l", "s", "e">>

C30_FalsyNotDropped ==
    (Returned /\ condition /\ ~embedded.nested) =>
        \A i \in 1..Len(values) :
            Falsy(values[i]) =>
                /\ registry.made => transformed[i] = FalsyText(values[i])
                /\ OccursFrom(FalsyText(values[i]), result, 1)
                /\ (Len(values) = 1 /\ \A k \in 1..Len(strings) : AllWhitespace(strings[k])) =>
                       result = IF HeaderShown(header)
                                THEN Wrap(header.s, FalsyText(values[i]))
                                ELSE FalsyText(values[i])

C30_Witness ==
    /\ Returned /\ condition
    /\ ~registry.made
    /\ header = StrV(<<"H">>)
    /\ strings = << <<" ">>, <<"\n">> >>
    /\ values = <<NumV(0)>>
    /\ result = <<"\n">> \o OpeningLine(<<"H">>) \o <<"\n", "0", "\n">>
                       \o ClosingLine(<<"H">>) \o <<"\n">>

=============================================================================
